---------------------------- MODULE Spec2Model ----------------------------
(***************************************************************************)
(* A model of the flashcard application: the Record Store behind its two   *)
(* gateways (the browser localStorage API of lib/api/flashcards and the    *)
(* Fastify routes over flashcardService), and the TanStack Query cache     *)
(* that the mutation hooks keep in front of it.                            *)
(*                                                                         *)
(* Encoding.  An id is a token: nanoid() and Prisma's id default are       *)
(* modelled as "the next unused token", the tokens being the integers      *)
(* 1, 2, ...; NoId (0) stands for the empty string.  A timestamp is a tick *)
(* of the clock `now`.  A JavaScript number that may be missing is an      *)
(* integer, with three values outside the naturals: Undef (the key is      *)
(* absent), NaN, and JsNull (what JSON.stringify writes for NaN).          *)
(***************************************************************************)
EXTENDS Integers, Sequences, FiniteSets, Bags, TLC

VARIABLES
  backend,   \* which Record Store the run is about: "local" or "server"
  data,      \* the bundled dataset (data.json / seed.json), fixed per run
  storage,   \* localStorage: [present |-> key is set, cards |-> parsed array]
  db,        \* the server's flashcard table, rows in insertion order
  now,       \* the clock
  nextId,    \* the next unused id token
  last,      \* the last call a caller made on the gateway or on a route
  listCache,       \* query data of flashcardKeys.lists(): [has, cards]
  detailCache,     \* query data of flashcardKeys.detail(id): <<>> or <<card>>
  listFetching,    \* a fetch of the list is in flight
  detailFetching,  \* the ids whose detail fetch is in flight
  muts,            \* the mutations in flight, a bag
  event,           \* what the last step did to the cache, for the claims
  flashcards,      \* the record list the page holds, as the views are given it
  ui,              \* the state of the UI store
  view             \* the last call of a view function or of the UI store

storeVars == <<backend, data, storage, db, now, nextId, last>>

cacheVars == <<listCache, detailCache, listFetching, detailFetching, muts,
               event>>

pageVars == <<flashcards, ui, view>>

vars == <<storeVars, cacheVars, pageVars>>

---------------------------------------------------------------------------
(* Bounds *)

\* The clock stops the run here: every gateway call waits on a timer, so
\* the clock bounds the number of calls in a run.
MaxTime == 3

\* How many cards a run may create.
MaxCreates == 1

\* The last reading of the clock in a run of the hooks; every mutation
\* issued can end by then, so it is also how many can be in flight at once.
MaxHookTime == 2

(* Program constants *)

\* The top mastery level: Math.min(card.knownCount + 1, 5).
MaxLevel == 5

Undef == -1
NaN == -2
JsNull == -3
NoId == 0

---------------------------------------------------------------------------
(* Values *)

Levels == 0..MaxLevel

\* The bundled dataset: two cards, the first not started, nearly mastered
\* or mastered.
SeedCard(i, level) ==
  [id |-> i,
   question |-> IF i = 1 THEN "2+2?" ELSE "Capital of France?",
   answer |-> IF i = 1 THEN "4" ELSE "Paris",
   category |-> IF i = 1 THEN "Math" ELSE "Geography",
   knownCount |-> level, createdAt |-> 0, updatedAt |-> 0]

flashcardsData == { <<SeedCard(1, l), SeedCard(2, 3)>> : l \in {0, 4, MaxLevel} }

\* The ids a call may name: those of the dataset, those a run can create,
\* all of which may also be absent from the store when the call is made.
Ids == 1..(2 + MaxCreates)

\* What the user types into the form, or a client posts to the server:
\* every field filled in, one of them empty, a one-character answer, a
\* blank category.
CreateTexts ==
  { [question |-> "H2O?", answer |-> "Water", category |-> "Science"],
    [question |-> "", answer |-> "Water", category |-> "Science"],
    [question |-> "H2O?", answer |-> "", category |-> "Science"],
    [question |-> "H2O?", answer |-> "Water", category |-> ""],
    [question |-> "2+2?", answer |-> "4", category |-> "Math"],
    [question |-> "H2O?", answer |-> "Water", category |-> "  "] }

\* A CreateFlashcardInput, as a caller of the gateway passes it: the texts,
\* and knownCount 0.
CreateInputs ==
  { [question |-> x.question, answer |-> x.answer, category |-> x.category,
     knownCount |-> 0] : x \in CreateTexts }

\* What a caller passes to update: some of the fields.
UpdatePatches ==
  { [question |-> "3+3?"],
    [answer |-> "6", category |-> "Arithmetic"],
    [knownCount |-> 2] }

---------------------------------------------------------------------------
(* Sequences of cards *)

RECURSIVE SelectCards(_, _)
\* Array.prototype.filter with a predicate given as the set of ids to keep.
SelectCards(cards, keep) ==
  IF cards = <<>> THEN <<>>
  ELSE IF Head(cards).id \in keep
       THEN <<Head(cards)>> \o SelectCards(Tail(cards), keep)
       ELSE SelectCards(Tail(cards), keep)

IdsOf(cards) == { cards[i].id : i \in 1..Len(cards) }

\* findIndex((card) => card.id === id): the first index, 0 for -1.
FindIndex(cards, id) ==
  IF \E i \in 1..Len(cards) : cards[i].id = id
  THEN CHOOSE i \in 1..Len(cards) :
         cards[i].id = id /\ \A j \in 1..(i - 1) : cards[j].id # id
  ELSE 0

CardOf(cards, id) == cards[FindIndex(cards, id)]

---------------------------------------------------------------------------
(* JavaScript arithmetic and JSON on a level that may be missing *)

\* card.knownCount + 1: undefined + 1 is NaN, null + 1 is 1.
JsPlusOne(v) ==
  IF v = Undef \/ v = NaN THEN NaN
  ELSE IF v = JsNull THEN 1
  ELSE v + 1

\* Math.min(v, cap): NaN if either is NaN.
JsMin(v, cap) ==
  IF v = NaN THEN NaN
  ELSE IF v < cap THEN v ELSE cap

\* JSON.parse(JSON.stringify(card)): NaN is written as null; a key whose
\* value is undefined is not written at all.
JsonCard(card) ==
  [card EXCEPT !.knownCount = IF @ = NaN THEN JsNull ELSE @]

JsonCards(cards) == [i \in 1..Len(cards) |-> JsonCard(cards[i])]

\* { ...card, ...input }: the keys of input override those of card.
Spread(card, input) ==
  [f \in DOMAIN card |-> IF f \in DOMAIN input THEN input[f] ELSE card[f]]

---------------------------------------------------------------------------
(* The localStorage gateway.  Each operator is the function's effect on  *)
(* localStorage at clock reading t: [res, storage, ret], ret holding the *)
(* returned card, if any.                                                *)

\* initializeStorage seeding the key also when it holds an empty array.
initializeStorageWhenEmpty(st, seed) ==
  IF ~st.present \/ st.cards = <<>>
  THEN [present |-> TRUE, cards |-> JsonCards(seed)] ELSE st

\* initializeStorage: seed the key from the dataset when it is not set.
initializeStorage(st, seed) ==
  IF ~st.present THEN [present |-> TRUE, cards |-> JsonCards(seed)] ELSE st

\* getFlashcards: the storage after the read, and the list read.
getFlashcards(st, seed) ==
  LET st1 == initializeStorage(st, seed)
  IN  [storage |-> st1, cards |-> IF st1.present THEN st1.cards ELSE <<>>]

SetItem(cards) == [present |-> TRUE, cards |-> JsonCards(cards)]

\* createFlashcard numbering the new card by the length of the list
\* instead of drawing a fresh id.
createFlashcardCountsIds(st, seed, input, id, t1, t2) ==
  LET read == getFlashcards(st, seed)
      newCard == [id |-> Len(read.cards) + 1, question |-> input.question,
                  answer |-> input.answer, category |-> input.category,
                  knownCount |-> IF "knownCount" \in DOMAIN input
                                 THEN input.knownCount ELSE Undef,
                  createdAt |-> t1, updatedAt |-> t2]
  IN  [res |-> "ok", storage |-> SetItem(Append(read.cards, newCard)),
       ret |-> <<newCard>>]

\* createFlashcard: { ...input, id, createdAt, updatedAt }, with no check of
\* the input; the two timestamps are two readings of the clock, t1 and t2.
createFlashcard(st, seed, input, id, t1, t2) ==
  LET newCard == [id |-> id, question |-> input.question,
                  answer |-> input.answer, category |-> input.category,
                  knownCount |-> IF "knownCount" \in DOMAIN input
                                 THEN input.knownCount ELSE Undef,
                  createdAt |-> t1, updatedAt |-> t2]
      read == getFlashcards(st, seed)
  IN  [res |-> "ok", storage |-> SetItem(Append(read.cards, newCard)),
       ret |-> <<newCard>>]

\* updateFlashcard without its check of the index: with no card found it
\* writes the list back as it read it and returns the input as a card.
updateFlashcardNoCheck(st, seed, id, input, t) ==
  LET read == getFlashcards(st, seed)
      index == FindIndex(read.cards, id)
  IN  IF index = 0
      THEN [res |-> "ok", storage |-> SetItem(read.cards), ret |-> <<>>]
      ELSE LET updatedCard ==
                 [Spread(read.cards[index], input) EXCEPT !.updatedAt = t]
           IN  [res |-> "ok",
                storage |-> SetItem([read.cards EXCEPT ![index] = updatedCard]),
                ret |-> <<updatedCard>>]

\* updateFlashcard stamping createdAt along with updatedAt.
updateFlashcardStampsBoth(st, seed, id, input, t) ==
  LET read == getFlashcards(st, seed)
      index == FindIndex(read.cards, id)
      updatedCard == [Spread(read.cards[index], input)
                        EXCEPT !.updatedAt = t, !.createdAt = t]
  IN  IF index = 0
      THEN [res |-> "NotFoundError", storage |-> read.storage, ret |-> <<>>]
      ELSE [res |-> "ok",
            storage |-> SetItem([read.cards EXCEPT ![index] = updatedCard]),
            ret |-> <<updatedCard>>]

updateFlashcard(st, seed, id, input, t) ==
  LET read == getFlashcards(st, seed)
      index == FindIndex(read.cards, id)
      updatedCard == [Spread(read.cards[index], input) EXCEPT !.updatedAt = t]
  IN  IF index = 0
      THEN [res |-> "NotFoundError", storage |-> read.storage, ret |-> <<>>]
      ELSE [res |-> "ok",
            storage |-> SetItem([read.cards EXCEPT ![index] = updatedCard]),
            ret |-> <<updatedCard>>]

\* deleteFlashcard without its comparison of the lengths: it writes the
\* filtered list whether or not the id was found.
deleteFlashcardNoCheck(st, seed, id) ==
  LET read == getFlashcards(st, seed)
      filtered == SelectCards(read.cards, IdsOf(read.cards) \ {id})
  IN  [res |-> "ok", storage |-> SetItem(filtered), ret |-> <<>>]

deleteFlashcard(st, seed, id) ==
  LET read == getFlashcards(st, seed)
      filtered == SelectCards(read.cards, IdsOf(read.cards) \ {id})
  IN  IF Len(filtered) = Len(read.cards)
      THEN [res |-> "NotFoundError", storage |-> read.storage, ret |-> <<>>]
      ELSE [res |-> "ok", storage |-> SetItem(filtered), ret |-> <<>>]

\* The level incrementKnownCount asks updateFlashcard to store.
IncrementedLevel(level) == JsMin(JsPlusOne(level), MaxLevel)

incrementKnownCount(st, seed, id, t) ==
  LET read == getFlashcards(st, seed)
  IN  IF FindIndex(read.cards, id) = 0
      THEN [res |-> "NotFoundError", storage |-> read.storage, ret |-> <<>>]
      ELSE updateFlashcard(read.storage, seed, id,
             [knownCount |-> IncrementedLevel(CardOf(read.cards, id).knownCount)],
             t)

\* The level resetKnownCount asks updateFlashcard to store.
ResetLevel == 0

\* resetKnownCount stepping the level back by one instead of clearing it.
resetKnownCountStepsBack(st, seed, id, t) ==
  LET read == getFlashcards(st, seed)
  IN  updateFlashcard(st, seed, id,
        [knownCount |-> IF FindIndex(read.cards, id) # 0
                           /\ CardOf(read.cards, id).knownCount > 0
                        THEN CardOf(read.cards, id).knownCount - 1
                        ELSE 0],
        t)

resetKnownCount(st, seed, id, t) ==
  updateFlashcard(st, seed, id, [knownCount |-> ResetLevel], t)

---------------------------------------------------------------------------
(* The form in front of createFlashcard *)

\* String.prototype.trim on the texts of CreateTexts, of which only the
\* blank one has white space around it.
Trim(text) == IF text = "  " THEN "" ELSE text

\* 'must be at least 3 characters'
MinTextLen == 3

\* validate without its check of the category.
validateNoCategory(formData) ==
  /\ Trim(formData.question) # "" /\ Len(Trim(formData.question)) >= MinTextLen
  /\ Trim(formData.answer) # "" /\ Len(Trim(formData.answer)) >= MinTextLen

\* validate: TRUE when it finds no error.
validate(formData) ==
  /\ Trim(formData.question) # "" /\ Len(Trim(formData.question)) >= MinTextLen
  /\ Trim(formData.answer) # "" /\ Len(Trim(formData.answer)) >= MinTextLen
  /\ Trim(formData.category) # ""

\* handleSubmit, with handleCreate as its onSubmit: the form data goes to
\* createFlashcard as it is, question, answer and category.
handleSubmit(st, seed, formData, id, t1, t2) ==
  IF ~validate(formData)
  THEN [res |-> "ValidationError", storage |-> st, ret |-> <<>>]
  ELSE createFlashcard(st, seed, formData, id, t1, t2)

---------------------------------------------------------------------------
(* The server: flashcardService over the Prisma table, behind the routes. *)
(* Each operator is a route handler's effect on the table:                *)
(* [res, http, db, ret].                                                  *)

\* The column defaults of the Flashcard table (prisma/schema.prisma): a new
\* row gets a fresh id, knownCount 0 and both timestamps set to now().
PrismaCreate(input, id, t) ==
  [id |-> id, question |-> input.question, answer |-> input.answer,
   category |-> input.category, knownCount |-> 0,
   createdAt |-> t, updatedAt |-> t]

\* The @updatedAt column (prisma/schema.prisma) on an update of a row.
PrismaTouch(row, t) == [row EXCEPT !.updatedAt = t]

Thrown == [res |-> "NotFoundError", http |-> 500]

\* POST /flashcards
PostFlashcard(rows, input, id, t) ==
  IF input.question = "" \/ input.answer = "" \/ input.category = ""
  THEN [res |-> "ValidationError", http |-> 400, db |-> rows, ret |-> <<>>]
  ELSE LET row == PrismaCreate(input, id, t)
       IN  [res |-> "ok", http |-> 201, db |-> Append(rows, row),
            ret |-> <<row>>]

\* prisma.flashcard.update({ where: { id }, data }) with data given as the
\* row it makes of the row found; it throws when no row has the id.
ServiceUpdate(rows, id, row) ==
  LET index == FindIndex(rows, id)
  IN  IF index = 0
      THEN [res |-> Thrown.res, http |-> Thrown.http, db |-> rows, ret |-> <<>>]
      ELSE [res |-> "ok", http |-> 200, db |-> [rows EXCEPT ![index] = row],
            ret |-> <<row>>]

\* PUT /flashcards/:id
PutFlashcard(rows, id, body, t) ==
  ServiceUpdate(rows, id,
    IF FindIndex(rows, id) = 0 THEN <<>>
    ELSE PrismaTouch(Spread(CardOf(rows, id), body), t))

\* DELETE /flashcards/:id
DeleteFlashcardRoute(rows, id) ==
  IF FindIndex(rows, id) = 0
  THEN [res |-> Thrown.res, http |-> Thrown.http, db |-> rows, ret |-> <<>>]
  ELSE [res |-> "ok", http |-> 204,
        db |-> SelectCards(rows, IdsOf(rows) \ {id}), ret |-> <<>>]

\* flashcardService.getAll: the rows of the category asked for, or all of
\* them, ordered by createdAt descending.  The order of rows with the
\* same createdAt is not fixed by the query: every result it can give.
getAll(rows, category) ==
  LET kept == IF category # ""
              THEN SelectSeq(rows, LAMBDA row : row.category = category)
              ELSE rows
      n == Len(kept)
      orders == { p \in [1..n -> 1..n] : \A i, j \in 1..n : p[i] = p[j] => i = j }
  IN  { [i \in 1..n |-> kept[p[i]]] : p \in
          { q \in orders :
              \A i, j \in 1..n :
                i < j => kept[q[i]].createdAt >= kept[q[j]].createdAt } }

\* GET /flashcards
GetFlashcards(rows, category, found) ==
  [res |-> "ok", http |-> 200, db |-> rows, ret |-> found]

\* knownCount: { increment: 1 }
ServiceIncrementedLevel(level) == level + 1

\* POST /flashcards/:id/increment
PostIncrement(rows, id, t) ==
  ServiceUpdate(rows, id,
    IF FindIndex(rows, id) = 0 THEN <<>>
    ELSE PrismaTouch([CardOf(rows, id) EXCEPT
           !.knownCount = ServiceIncrementedLevel(@)], t))

\* knownCount: 0
ServiceResetLevel == 0

\* POST /flashcards/:id/reset
PostReset(rows, id, t) ==
  ServiceUpdate(rows, id,
    IF FindIndex(rows, id) = 0 THEN <<>>
    ELSE PrismaTouch([CardOf(rows, id) EXCEPT
           !.knownCount = ServiceResetLevel], t))

\* The bodies a client sends to PUT: question, answer, category.
PutBodies == { p \in UpdatePatches : "knownCount" \notin DOMAIN p }

---------------------------------------------------------------------------
(* The Record Store as a list of records, whichever the backend.  With    *)
(* the localStorage key not set, the store holds the bundled dataset:     *)
(* that is what every read returns.                                       *)

Records ==
  IF backend = "server" THEN db
  ELSE getFlashcards(storage, data).cards

\* No text: the argument of a call that takes none.
NoText == [question |-> "", answer |-> "", category |-> ""]

\* The last call: what was called (op) and through what (via: the form, the
\* localStorage gateway function itself, a server route), on which id, with
\* which texts; how it ended (res), the card it returned (ret), and the
\* records of the store when it was made (before).
NoCall == [op |-> "none", via |-> "none", id |-> NoId, arg |-> NoText,
           res |-> "none", ret |-> <<>>, before |-> <<>>]

Call(op, via, id, arg, out) ==
  [op |-> op, via |-> via, id |-> id, arg |-> arg, res |-> out.res,
   ret |-> out.ret, before |-> Records]

\* A query that has no data yet.
NotLoaded == [has |-> FALSE, cards |-> <<>>]

NoEvent == [type |-> "none"]

\* The cache before any query has run.
CacheInit ==
  /\ listCache = NotLoaded
  /\ detailCache = [id \in Ids |-> <<>>]
  /\ detailFetching = {}
  /\ muts = EmptyBag
  /\ event = NoEvent

\* defaultFilters of the UI store.
defaultFilters == [categories |-> <<>>, hideMastered |-> FALSE,
                   searchQuery |-> ""]

\* The state useUIStore is created with; editingCardId null is NoId.
UIInitial ==
  [viewMode |-> "all", filters |-> defaultFilters,
   currentCardIndex |-> 0, isCardFlipped |-> FALSE, isShuffled |-> FALSE,
   isCardFormOpen |-> FALSE, editingCardId |-> NoId,
   currentPage |-> 1, cardsPerPage |-> 12]

NoView == [fn |-> "none"]

\* The page before any view is computed.
PageInit ==
  /\ flashcards = <<>>
  /\ ui = UIInitial
  /\ view = NoView

Init ==
  /\ backend \in {"local", "server"}
  /\ data \in flashcardsData
  /\ storage = [present |-> FALSE, cards |-> <<>>]
  /\ db = data
  /\ now = 0
  /\ nextId = 3
  /\ last = NoCall
  /\ CacheInit
  /\ listFetching = FALSE
  /\ PageInit

\* A call on the localStorage gateway ends: its effect, and the clock after
\* the timers it waited on.
LocalDone(op, id, arg, out, t) ==
  /\ storage' = out.storage
  /\ last' = Call(op, "gateway", id, arg, out)
  /\ now' = t
  /\ UNCHANGED <<backend, data, db, cacheVars, pageVars>>

ServerDone(op, id, arg, out, t) ==
  /\ db' = out.db
  /\ last' = Call(op, "route", id, arg, out)
  /\ now' = t
  /\ UNCHANGED <<backend, data, storage, cacheVars, pageVars>>

\* The user submits the create form.
FormCreate ==
  /\ backend = "local" /\ now < MaxTime /\ nextId <= 2 + MaxCreates
  /\ \E formData \in CreateTexts, t2 \in {now + 1, now + 2} :
       LET out == handleSubmit(storage, data, formData, nextId, now + 1, t2)
       IN  /\ t2 <= MaxTime
           /\ storage' = out.storage
           /\ last' = Call("create", "form", nextId, formData, out)
           /\ now' = t2
           /\ nextId' = IF out.res = "ok" THEN nextId + 1 ELSE nextId
  /\ UNCHANGED <<backend, data, db, cacheVars, pageVars>>

\* A caller of the gateway passes a CreateFlashcardInput to createFlashcard.
LocalCreate ==
  /\ backend = "local" /\ now < MaxTime /\ nextId <= 2 + MaxCreates
  /\ \E input \in CreateInputs, t2 \in {now + 1, now + 2} :
       /\ t2 <= MaxTime
       /\ LocalDone("create", nextId,
            [f \in DOMAIN NoText |-> input[f]],
            createFlashcard(storage, data, input, nextId, now + 1, t2), t2)
  /\ nextId' = nextId + 1

LocalUpdate ==
  /\ backend = "local" /\ now < MaxTime
  /\ \E id \in Ids, input \in UpdatePatches :
       LocalDone("update", id, input,
         updateFlashcard(storage, data, id, input, now + 1), now + 1)
  /\ UNCHANGED nextId

LocalDelete ==
  /\ backend = "local" /\ now < MaxTime
  /\ \E id \in Ids :
       LocalDone("delete", id, NoText,
         deleteFlashcard(storage, data, id), now + 1)
  /\ UNCHANGED nextId

LocalIncrement ==
  /\ backend = "local" /\ now < MaxTime
  /\ \E id \in Ids :
       LocalDone("increment", id, NoText,
         incrementKnownCount(storage, data, id, now + 1), now + 1)
  /\ UNCHANGED nextId

LocalReset ==
  /\ backend = "local" /\ now < MaxTime
  /\ \E id \in Ids :
       LocalDone("reset", id, NoText,
         resetKnownCount(storage, data, id, now + 1), now + 1)
  /\ UNCHANGED nextId

\* A caller of the gateway reads the list.
LocalList ==
  /\ backend = "local"
  /\ LET read == getFlashcards(storage, data)
     IN  LocalDone("list", NoId, NoText,
           [res |-> "ok", storage |-> read.storage, ret |-> read.cards], now)
  /\ UNCHANGED nextId

ServerCreate ==
  /\ backend = "server" /\ now < MaxTime /\ nextId <= 2 + MaxCreates
  /\ \E body \in CreateTexts :
       LET out == PostFlashcard(db, body, nextId, now + 1)
       IN  /\ ServerDone("create", nextId, body, out, now + 1)
           /\ nextId' = IF out.res = "ok" THEN nextId + 1 ELSE nextId

ServerUpdate ==
  /\ backend = "server" /\ now < MaxTime
  /\ \E id \in Ids, body \in PutBodies :
       ServerDone("update", id, body,
         PutFlashcard(db, id, body, now + 1), now + 1)
  /\ UNCHANGED nextId

ServerDelete ==
  /\ backend = "server" /\ now < MaxTime
  /\ \E id \in Ids :
       ServerDone("delete", id, NoText, DeleteFlashcardRoute(db, id), now + 1)
  /\ UNCHANGED nextId

ServerIncrement ==
  /\ backend = "server" /\ now < MaxTime
  /\ \E id \in Ids :
       ServerDone("increment", id, NoText,
         PostIncrement(db, id, now + 1), now + 1)
  /\ UNCHANGED nextId

ServerReset ==
  /\ backend = "server" /\ now < MaxTime
  /\ \E id \in Ids :
       ServerDone("reset", id, NoText, PostReset(db, id, now + 1), now + 1)
  /\ UNCHANGED nextId

\* The category a client asks the server's list for: none, or one.
ListQueries == {"", "Math"}

ServerList ==
  /\ backend = "server"
  /\ \E category \in ListQueries :
       \E found \in getAll(db, category) :
         ServerDone("list", NoId, [NoText EXCEPT !.category = category],
           GetFlashcards(db, category, found), now)
  /\ UNCHANGED nextId

Next ==
  \/ FormCreate
  \/ LocalCreate \/ LocalUpdate \/ LocalDelete \/ LocalIncrement \/ LocalReset
  \/ ServerCreate \/ ServerUpdate \/ ServerDelete \/ ServerIncrement
  \/ ServerReset

Spec == Init /\ [][Next]_vars

\* clearAllFlashcards: localStorage.removeItem(STORAGE_KEY)
clearAllFlashcards(st) ==
  [res |-> "ok", storage |-> [present |-> FALSE, cards |-> <<>>],
   ret |-> <<>>]

LocalClear ==
  /\ backend = "local"
  /\ storage.present
  /\ LocalDone("clear", NoId, NoText, clearAllFlashcards(storage), now)
  /\ UNCHANGED nextId

\* The store under creates, deletes, reads of the list and clearing.
NextList ==
  \/ FormCreate \/ LocalCreate \/ LocalDelete \/ LocalList \/ LocalClear
  \/ ServerCreate \/ ServerDelete \/ ServerList

SpecList == Init /\ [][NextList]_vars

---------------------------------------------------------------------------
(* The query cache and the mutation hooks in front of the localStorage    *)
(* gateway.  A step of a mutation is one of its callbacks, whole: the     *)
(* callbacks of the hook, then those the page passes to mutate.           *)

\* The ids the page acts on: a card of the dataset, and the id that is
\* absent until a card is created.
PageIds == {1, 3}

\* The ids a component calls useFlashcard with.
DetailIds == {1}

\* What the edit form hands to handleUpdate: question, answer, category.
FormEdits ==
  { [question |-> "3+3?", answer |-> "Six", category |-> "Arithmetic"] }

\* The context of a mutation whose hook has no onMutate: undefined.
NoContext ==
  [taken |-> FALSE, previousFlashcards |-> NotLoaded,
   previousFlashcard |-> <<>>]

\* old.map((card) => card.id === input.id ? { ...card, ...input } : card)
MapSpread(cards, input) ==
  [i \in 1..Len(cards) |->
     IF cards[i].id = input.id THEN Spread(cards[i], input) ELSE cards[i]]

\* onMutate of useUpdateFlashcard, after its two cancelQueries: the
\* snapshots, and the optimistic write to each cache that has data.
useUpdateFlashcard_onMutate(list, detail, input) ==
  LET previousFlashcards == list
      previousFlashcard == detail[input.id]
  IN  [list |-> IF previousFlashcards.has
                THEN [has |-> TRUE, cards |-> MapSpread(list.cards, input)]
                ELSE list,
       detail |-> IF previousFlashcard # <<>>
                  THEN [detail EXCEPT
                          ![input.id] = <<Spread(previousFlashcard[1], input)>>]
                  ELSE detail,
       context |-> [taken |-> TRUE,
                    previousFlashcards |-> previousFlashcards,
                    previousFlashcard |-> previousFlashcard]]

\* onError of useUpdateFlashcard without its rollback of the list.
useUpdateFlashcard_onErrorKeepsList(list, detail, input, context) ==
  [list |-> list,
   detail |-> IF context.previousFlashcard # <<>>
              THEN [detail EXCEPT ![input.id] = context.previousFlashcard]
              ELSE detail,
   errors |-> 1]

\* onError of useUpdateFlashcard: each snapshot that is truthy goes back
\* into its cache; one toast.error.
useUpdateFlashcard_onError(list, detail, input, context) ==
  [list |-> IF context.previousFlashcards.has
            THEN context.previousFlashcards ELSE list,
   detail |-> IF context.previousFlashcard # <<>>
              THEN [detail EXCEPT ![input.id] = context.previousFlashcard]
              ELSE detail,
   errors |-> 1]

\* onMutate of useDeleteFlashcard taking the snapshot and leaving the
\* record in the list.
useDeleteFlashcard_onMutateKeeps(list, detail, id) ==
  [list |-> list, detail |-> detail,
   context |-> [taken |-> TRUE, previousFlashcards |-> list,
                previousFlashcard |-> <<>>]]

\* onMutate of useDeleteFlashcard, after its cancelQueries: the snapshot of
\* the list, and the optimistic removal from it.
useDeleteFlashcard_onMutate(list, detail, id) ==
  LET previousFlashcards == list
  IN  [list |-> IF previousFlashcards.has
                THEN [has |-> TRUE,
                      cards |-> SelectCards(list.cards,
                                            IdsOf(list.cards) \ {id})]
                ELSE list,
       detail |-> detail,
       context |-> [taken |-> TRUE,
                    previousFlashcards |-> previousFlashcards,
                    previousFlashcard |-> <<>>]]

\* onError of useDeleteFlashcard.
useDeleteFlashcard_onError(list, detail, id, context) ==
  [list |-> IF context.previousFlashcards.has
            THEN context.previousFlashcards ELSE list,
   detail |-> detail,
   errors |-> 1]

\* An onMutate that useIncrementMasteryLevel does not have: a snapshot of
\* the list, and the clamped level written into it.
useIncrementMasteryLevel_onMutateOptimistic(list, detail, id) ==
  [list |-> IF list.has
            THEN [has |-> TRUE,
                  cards |-> [i \in 1..Len(list.cards) |->
                    IF list.cards[i].id = id
                    THEN [list.cards[i] EXCEPT
                            !.knownCount = IncrementedLevel(@)]
                    ELSE list.cards[i]]]
            ELSE list,
   detail |-> detail,
   context |-> [taken |-> TRUE, previousFlashcards |-> list,
                previousFlashcard |-> <<>>]]

\* useIncrementMasteryLevel between mutate and its mutationFn: the options
\* hold no onMutate, so the caches stay and the context is undefined.
useIncrementMasteryLevel_onMutate(list, detail, id) ==
  [list |-> list, detail |-> detail, context |-> NoContext]

\* useResetMasteryLevel between mutate and its mutationFn: no onMutate.
useResetMasteryLevel_onMutate(list, detail, id) ==
  [list |-> list, detail |-> detail, context |-> NoContext]

\* useCreateFlashcard putting the card into the cached list before the
\* store has answered, under a provisional id.
useCreateFlashcard_onMutateOptimistic(list, detail, input) ==
  [list |-> IF list.has
            THEN [list EXCEPT !.cards =
                    Append(@, [id |-> NoId, question |-> input.question,
                               answer |-> input.answer,
                               category |-> input.category,
                               knownCount |-> 0, createdAt |-> 0,
                               updatedAt |-> 0])]
            ELSE list,
   detail |-> detail, context |-> NoContext]

\* useCreateFlashcard between mutate and its mutationFn: no onMutate.
useCreateFlashcard_onMutate(list, detail, input) ==
  [list |-> list, detail |-> detail, context |-> NoContext]

\* toast.error calls of the onError the page passes to mutate: handleCreate,
\* handleUpdate and handleDelete pass one, handleIncrement and handleReset
\* pass none.
PageErrorToasts(kind) ==
  IF kind \in {"create", "update", "delete"} THEN 1 ELSE 0

\* The caches after the hook's onError, and its toast.error calls: the
\* create hook only toasts, the increment and reset hooks have no onError.
OnError(m, list, detail) ==
  IF m.kind = "update"
  THEN useUpdateFlashcard_onError(list, detail, m.input, m.context)
  ELSE IF m.kind = "delete"
  THEN useDeleteFlashcard_onError(list, detail, m.id, m.context)
  ELSE IF m.kind = "create"
  THEN [list |-> list, detail |-> detail, errors |-> 1]
  ELSE [list |-> list, detail |-> detail, errors |-> 0]

\* Does the hook invalidate the list when the mutation ends so?  create,
\* increment and reset in onSuccess; update and delete in onSettled.
InvalidatesLists(kind, ok) == ok \/ kind \in {"update", "delete"}

\* A query with an observer: invalidateQueries refetches it.
Active(id) == detailCache[id] # <<>> \/ id \in detailFetching

\* The mutationFn of each hook, on the localStorage gateway.
mutationFn(m, st, seed, id, t1, t2) ==
  IF m.kind = "create" THEN createFlashcard(st, seed, m.input, id, t1, t2)
  ELSE IF m.kind = "update" THEN updateFlashcard(st, seed, m.id, m.input, t1)
  ELSE IF m.kind = "delete" THEN deleteFlashcard(st, seed, m.id)
  ELSE IF m.kind = "increment" THEN incrementKnownCount(st, seed, m.id, t1)
  ELSE resetKnownCount(st, seed, m.id, t1)

\* localStorage.getItem, JSON.parse or localStorage.setItem throws.
StorageError(st) == [res |-> "StorageError", storage |-> st, ret |-> <<>>]

InitCache ==
  /\ backend = "local"
  /\ data = <<SeedCard(1, 4), SeedCard(2, 3)>>
  /\ storage = [present |-> FALSE, cards |-> <<>>]
  /\ db = data
  /\ now = 0
  /\ nextId = 3
  /\ last = NoCall
  /\ CacheInit
  /\ listFetching = TRUE
  /\ PageInit

CreatesInFlight ==
  BagCardinality([m \in { x \in BagToSet(muts) : x.kind = "create" }
                    |-> muts[m]])

\* The caches a mutation of id finds: the list, and the detail of id.
Before(id) ==
  [list |-> listCache,
   detail |-> IF id = NoId THEN <<>> ELSE detailCache[id]]

\* mutate(): the hook's onMutate has run, the mutationFn is in flight.
Issue(kind, id, input, m, cancelList, cancelDetail) ==
  /\ now + BagCardinality(muts) < MaxHookTime
  /\ listCache' = m.list
  /\ detailCache' = m.detail
  /\ listFetching' = (listFetching /\ ~cancelList)
  /\ detailFetching' = IF cancelDetail THEN detailFetching \ {id}
                       ELSE detailFetching
  /\ muts' = BagOfAll(LAMBDA x : [x EXCEPT !.alone = FALSE], muts)
              (+) SetToBag({[kind |-> kind, id |-> id, input |-> input,
                             context |-> m.context, alone |-> muts = EmptyBag,
                             refetched |-> FALSE, relisted |-> FALSE,
                             before |-> Before(id)]})
  /\ event' = [type |-> "mutate", kind |-> kind, id |-> id, ok |-> TRUE,
               alone |-> muts = EmptyBag, refetched |-> FALSE,
               relisted |-> FALSE,
               context |-> m.context,
               before |-> Before(id),
               errors |-> 0]
  /\ UNCHANGED <<storeVars, pageVars>>

\* handleCreate: the form has validated the data.
MutateCreate ==
  /\ backend = "local"
  /\ nextId + CreatesInFlight <= 2 + MaxCreates
  /\ \E formData \in { x \in CreateTexts : validate(x) } :
       Issue("create", NoId, formData,
             useCreateFlashcard_onMutate(listCache, detailCache, formData),
             FALSE, FALSE)

\* handleUpdate: { id: editingFlashcard.id, ...data }.
MutateUpdate ==
  /\ backend = "local"
  /\ \E id \in PageIds, formData \in FormEdits :
       LET input == [id |-> id, question |-> formData.question,
                     answer |-> formData.answer,
                     category |-> formData.category]
       IN  Issue("update", id, input,
                 useUpdateFlashcard_onMutate(listCache, detailCache, input),
                 TRUE, TRUE)

MutateDelete ==
  /\ backend = "local"
  /\ \E id \in PageIds :
       Issue("delete", id, NoText,
             useDeleteFlashcard_onMutate(listCache, detailCache, id),
             TRUE, FALSE)

MutateIncrement ==
  /\ backend = "local"
  /\ \E id \in PageIds :
       Issue("increment", id, NoText,
             useIncrementMasteryLevel_onMutate(listCache, detailCache, id),
             FALSE, FALSE)

MutateReset ==
  /\ backend = "local"
  /\ \E id \in PageIds :
       Issue("reset", id, NoText,
             useResetMasteryLevel_onMutate(listCache, detailCache, id),
             FALSE, FALSE)

\* The mutationFn of a mutation in flight resolves or rejects, for good
\* (after the one retry, if there was one), and the callbacks run:
\* onSuccess or onError, then onSettled.
Settle ==
  /\ now < MaxHookTime
  /\ \E m \in BagToSet(muts), throws \in BOOLEAN, t2 \in {now + 1, now + 2} :
       LET out == IF throws THEN StorageError(storage)
                  ELSE mutationFn(m, storage, data, nextId, now + 1, t2)
           ok == out.res = "ok"
           rolled == IF ok
                     THEN [list |-> listCache, detail |-> detailCache,
                           errors |-> 0]
                     ELSE OnError(m, listCache, detailCache)
       IN  /\ t2 <= MaxHookTime
           /\ (m.kind # "create" \/ throws) => t2 = now + 1
           /\ storage' = out.storage
           /\ now' = t2
           /\ nextId' = IF m.kind = "create" /\ ok THEN nextId + 1 ELSE nextId
           /\ listCache' = rolled.list
           /\ detailCache' = rolled.detail
           /\ listFetching' = (listFetching \/ InvalidatesLists(m.kind, ok))
           /\ detailFetching' = IF m.kind = "update" /\ Active(m.id)
                                THEN detailFetching \cup {m.id}
                                ELSE detailFetching
           /\ muts' = muts (-) SetToBag({m})
           /\ event' = [type |-> "settle", kind |-> m.kind, id |-> m.id,
                        ok |-> ok, alone |-> m.alone,
                        refetched |-> m.refetched, relisted |-> m.relisted,
                        context |-> m.context,
                        before |-> m.before,
                        errors |-> IF ok THEN 0
                                   ELSE rolled.errors
                                        + PageErrorToasts(m.kind)]
  /\ UNCHANGED <<backend, data, db, last, pageVars>>

\* The detail query of id has fetched while mutations of id are in flight.
Refetched(id) ==
  BagOfAll(LAMBDA x : IF x.id = id THEN [x EXCEPT !.refetched = TRUE] ELSE x,
           muts)

\* useFlashcards: the queryFn getFlashcards resolves.
FetchListDone ==
  /\ listFetching
  /\ LET read == getFlashcards(storage, data)
     IN  /\ storage' = read.storage
         /\ listCache' = [has |-> TRUE, cards |-> read.cards]
  /\ listFetching' = FALSE
  /\ muts' = BagOfAll(LAMBDA x : [x EXCEPT !.relisted = TRUE], muts)
  /\ event' = [type |-> "fetch"]
  /\ UNCHANGED <<backend, data, db, now, nextId, last, detailCache,
                 detailFetching, pageVars>>

\* A component calls useFlashcard(id): the query starts to fetch.
MountDetail ==
  /\ \E id \in DetailIds :
       /\ ~Active(id)
       /\ detailFetching' = detailFetching \cup {id}
  /\ event' = [type |-> "mount"]
  /\ UNCHANGED <<storeVars, listCache, detailCache, listFetching, muts,
                 pageVars>>

\* useFlashcard(id): the queryFn getFlashcard(id) resolves, with the card
\* or with null.
FetchDetailDone ==
  /\ \E id \in detailFetching :
       LET read == getFlashcards(storage, data)
       IN  /\ storage' = read.storage
           /\ detailCache' =
                [detailCache EXCEPT
                   ![id] = IF FindIndex(read.cards, id) = 0 THEN <<>>
                           ELSE <<CardOf(read.cards, id)>>]
           /\ detailFetching' = detailFetching \ {id}
           /\ muts' = Refetched(id)
  /\ event' = [type |-> "fetch"]
  /\ UNCHANGED <<backend, data, db, now, nextId, last, listCache,
                 listFetching, pageVars>>

NextCache ==
  \/ MutateCreate \/ MutateUpdate \/ MutateDelete \/ MutateIncrement
  \/ MutateReset
  \/ Settle
  \/ FetchListDone \/ MountDetail \/ FetchDetailDone

SpecCache == InitCache /\ [][NextCache]_vars

---------------------------------------------------------------------------
(* The views the page derives from the record list.  Each operator is the *)
(* function's result on its arguments; where the claim is about the       *)
(* argument too, it is [out, array]: the result, and the argument array   *)
(* as the call leaves it.                                                 *)

\* How many records a list given to a view may hold.
MaxCards == 3

\* The characters of the texts the views read, as String.prototype methods
\* see them.
Chars(text) ==
  CASE text = "" -> <<>>
    [] text = "2+2?" -> <<"2", "+", "2", "?">>
    [] text = "4" -> <<"4">>
    [] text = "Capital?" -> <<"C", "a", "p", "i", "t", "a", "l", "?">>
    [] text = "Paris" -> <<"P", "a", "r", "i", "s">>
    [] text = "H2O?" -> <<"H", "2", "O", "?">>
    [] text = "Water" -> <<"W", "a", "t", "e", "r">>
    [] text = "Spa town?" -> <<"S", "p", "a", " ", "t", "o", "w", "n", "?">>
    [] text = "Bath" -> <<"B", "a", "t", "h">>
    [] text = "Pi?" -> <<"P", "i", "?">>
    [] text = "3.14" -> <<"3", ".", "1", "4">>
    [] text = "pa" -> <<"p", "a">>
    [] text = "PA" -> <<"P", "A">>
    [] text = "?" -> <<"?">>
    [] text = "zz" -> <<"z", "z">>
    [] text = "Math" -> <<"M", "a", "t", "h">>
    [] text = "Geography" -> <<"G", "e", "o", "g", "r", "a", "p", "h", "y">>
    [] text = "geography" -> <<"g", "e", "o", "g", "r", "a", "p", "h", "y">>
    [] text = "Science" -> <<"S", "c", "i", "e", "n", "c", "e">>

UpperLetters ==
  <<"A", "B", "C", "D", "E", "F", "G", "H", "I", "J", "K", "L", "M",
    "N", "O", "P", "Q", "R", "S", "T", "U", "V", "W", "X", "Y", "Z">>

LowerLetters ==
  <<"a", "b", "c", "d", "e", "f", "g", "h", "i", "j", "k", "l", "m",
    "n", "o", "p", "q", "r", "s", "t", "u", "v", "w", "x", "y", "z">>

\* The place of a letter in the alphabet, 0 for what is not that letter.
PlaceIn(letters, c) ==
  IF \E i \in 1..Len(letters) : letters[i] = c
  THEN CHOOSE i \in 1..Len(letters) : letters[i] = c
  ELSE 0

\* String.prototype.toLowerCase
toLowerCase(chars) ==
  [i \in 1..Len(chars) |->
     IF PlaceIn(UpperLetters, chars[i]) # 0
     THEN LowerLetters[PlaceIn(UpperLetters, chars[i])]
     ELSE chars[i]]

\* String.prototype.includes
includes(chars, query) ==
  \E i \in 0..(Len(chars) - Len(query)) :
    SubSeq(chars, i + 1, i + Len(query)) = query

\* v < n and v > n on a level that may be undefined, NaN or null: a
\* comparison with undefined or NaN is false, null compares as 0.
JsLess(v, n) ==
  IF v = Undef \/ v = NaN THEN FALSE
  ELSE IF v = JsNull THEN 0 < n
  ELSE v < n

JsGreater(v, n) ==
  IF v = Undef \/ v = NaN THEN FALSE
  ELSE IF v = JsNull THEN 0 > n
  ELSE v > n

\* v >= n
JsAtLeast(v, n) ==
  IF v = Undef \/ v = NaN THEN FALSE
  ELSE IF v = JsNull THEN 0 >= n
  ELSE v >= n

\* flashcards.filter((card) => card.knownCount === level).length, and the
\* like for the cards in progress.
CountAt(cards, level) ==
  Len(SelectSeq(cards, LAMBDA card : card.knownCount = level))

CountInProgress(cards) ==
  Len(SelectSeq(cards, LAMBDA card : /\ JsGreater(card.knownCount, 0)
                                     /\ JsLess(card.knownCount, MaxLevel)))

\* calculateStatistics: the total and the three counts.
calculateStatistics(cards) ==
  [total |-> Len(cards),
   mastered |-> CountAt(cards, MaxLevel),
   inProgress |-> CountInProgress(cards),
   notStarted |-> CountAt(cards, 0)]

\* The statistics the study page computes for itself.
StudyModeStatistics(cards) ==
  [total |-> Len(cards),
   mastered |-> Len(SelectSeq(cards,
                  LAMBDA card : JsAtLeast(card.knownCount, MaxLevel))),
   inProgress |-> CountInProgress(cards),
   notStarted |-> CountAt(cards, 0)]

\* The set of the elements of an array.
Elements(array) == { array[i] : i \in 1..Len(array) }

\* Does the search of filterFlashcards keep the card?
MatchesQuery(card, searchQuery) ==
  LET query == toLowerCase(Chars(searchQuery))
  IN  \/ includes(toLowerCase(Chars(card.question)), query)
      \/ includes(toLowerCase(Chars(card.answer)), query)

\* filterFlashcards reversing its argument in place and returning it.
filterFlashcardsInPlace(cards, filters) ==
  [out |-> cards, array |-> [i \in 1..Len(cards) |-> cards[Len(cards) + 1 - i]]]

\* if (filters.categories.length > 0) filtered = filtered.filter(...)
ByCategory(filtered, filters) ==
  IF Len(filters.categories) > 0
  THEN SelectSeq(filtered,
         LAMBDA card : card.category \in Elements(filters.categories))
  ELSE filtered

\* if (filters.hideMastered) filtered = filtered.filter(...)
NotMastered(filtered, filters) ==
  IF filters.hideMastered
  THEN SelectSeq(filtered, LAMBDA card : JsLess(card.knownCount, MaxLevel))
  ELSE filtered

\* if (filters.searchQuery) filtered = filtered.filter(...)
Searched(filtered, filters) ==
  IF filters.searchQuery # ""
  THEN SelectSeq(filtered,
         LAMBDA card : MatchesQuery(card, filters.searchQuery))
  ELSE filtered

\* filterFlashcards: a copy, then the three filters, each when it is set.
filterFlashcards(cards, filters) ==
  LET copied == cards
  IN  [out |-> Searched(NotMastered(ByCategory(copied, filters), filters),
                        filters),
       array |-> cards]

\* [shuffled[i], shuffled[j]] = [shuffled[j], shuffled[i]], on indices
\* from 0.
Swap(array, i, j) ==
  [array EXCEPT ![i + 1] = array[j + 1], ![j + 1] = array[i + 1]]

\* The values Math.floor(Math.random() * (i + 1)) can take in the loop of
\* shuffleArray over an array of length n: for each i from n - 1 down to
\* 1, a j from 0 to i.
RandomChoices(n) ==
  { rand \in [1..(n - 1) -> 0..(n - 1)] : \A i \in 1..(n - 1) : rand[i] <= i }

RECURSIVE FisherYates(_, _, _)
\* The loop of shuffleArray from index i down, rand[i] being the j of i.
FisherYates(shuffled, i, rand) ==
  IF i > 0
  THEN FisherYates(Swap(shuffled, i, rand[i]), i - 1, rand)
  ELSE shuffled

RECURSIVE FisherYatesOverwrite(_, _, _)
\* The loop with an assignment in place of the swap.
FisherYatesOverwrite(shuffled, i, rand) ==
  IF i > 0
  THEN FisherYatesOverwrite([shuffled EXCEPT ![i + 1] = shuffled[rand[i] + 1]],
                            i - 1, rand)
  ELSE shuffled

\* shuffleArray that copies one element over the other.
shuffleArrayOverwrite(array, rand) ==
  [out |-> FisherYatesOverwrite(array, Len(array) - 1, rand), array |-> array]

\* shuffleArray: the loop on a copy of the array.
shuffleArray(array, rand) ==
  [out |-> FisherYates(array, Len(array) - 1, rand), array |-> array]

\* forEach of getCategoriesWithCounts on a Map: the entries, in the order
\* their keys were first set, as <<name, count>>.
RECURSIVE CategoryEntries(_, _)
CategoryEntries(cards, entries) ==
  IF cards = <<>> THEN entries
  ELSE LET category == Head(cards).category
           at == { i \in 1..Len(entries) : entries[i][1] = category }
       IN  CategoryEntries(Tail(cards),
             IF at = {}
             THEN Append(entries, <<category, 1>>)
             ELSE [i \in 1..Len(entries) |->
                     IF i \in at THEN <<category, entries[i][2] + 1>>
                     ELSE entries[i]])

RECURSIVE CompareWeights(_, _)
\* The first difference of two texts given as the weights of their
\* characters, a text going before those it is the beginning of: -1, 0, 1.
CompareWeights(a, b) ==
  IF a = <<>> /\ b = <<>> THEN 0
  ELSE IF a = <<>> THEN -1
  ELSE IF b = <<>> THEN 1
  ELSE IF Head(a) < Head(b) THEN -1
  ELSE IF Head(a) > Head(b) THEN 1
  ELSE CompareWeights(Tail(a), Tail(b))

\* a.localeCompare(b) on names made of letters: the letters are compared
\* without their case, and names that differ only in case go lower case
\* first.
localeCompare(a, b) ==
  LET letters(text) == [i \in 1..Len(Chars(text)) |->
                          PlaceIn(LowerLetters, toLowerCase(Chars(text))[i])]
      cases(text) == [i \in 1..Len(Chars(text)) |->
                        PlaceIn(UpperLetters, Chars(text)[i])]
  IN  IF CompareWeights(letters(a), letters(b)) # 0
      THEN CompareWeights(letters(a), letters(b))
      ELSE CompareWeights(cases(a), cases(b))

\* a < b on the UTF-16 code units of names made of letters: every upper
\* case letter is before every lower case letter.
CodeUnitCompare(a, b) ==
  LET units(text) ==
        [i \in 1..Len(Chars(text)) |->
           IF PlaceIn(UpperLetters, Chars(text)[i]) # 0
           THEN PlaceIn(UpperLetters, Chars(text)[i])
           ELSE Len(UpperLetters) + PlaceIn(LowerLetters, Chars(text)[i])]
  IN  CompareWeights(units(a), units(b))

RECURSIVE InsertByName(_, _)
\* entry put into a sorted array before the first element whose name it
\* compares less than.
InsertByName(sorted, entry) ==
  IF sorted = <<>> THEN <<entry>>
  ELSE IF localeCompare(entry.name, Head(sorted).name) < 0
       THEN <<entry>> \o sorted
       ELSE <<Head(sorted)>> \o InsertByName(Tail(sorted), entry)

RECURSIVE SortByName(_)
\* array.sort((a, b) => a.name.localeCompare(b.name)): stable.
SortByName(array) ==
  IF array = <<>> THEN <<>>
  ELSE InsertByName(SortByName(SubSeq(array, 1, Len(array) - 1)),
                    array[Len(array)])

\* getCategoriesWithCounts without its sort.
getCategoriesWithCountsUnsorted(cards) ==
  LET entries == CategoryEntries(cards, <<>>)
  IN  [i \in 1..Len(entries) |->
         [name |-> entries[i][1], count |-> entries[i][2]]]

\* getCategoriesWithCounts of the client: { name, count } of each entry of
\* the Map, sorted by localeCompare of the names.
getCategoriesWithCounts(cards) ==
  LET entries == CategoryEntries(cards, <<>>)
      mapped == [i \in 1..Len(entries) |->
                   [name |-> entries[i][1], count |-> entries[i][2]]]
  IN  SortByName(mapped)

\* flashcardService.getCategoriesWithCounts: { category, count } of each
\* entry of the object the reduce fills, in the order of Object.entries,
\* which for names that are not numbers is the order the keys were set.
ServiceCategoriesWithCounts(rows) ==
  LET entries == CategoryEntries(rows, <<>>)
  IN  [i \in 1..Len(entries) |->
         [category |-> entries[i][1], count |-> entries[i][2]]]

\* The records the lists given to the views are made of: a card of each
\* kind the stores come to hold.  One not started, one mastered, one
\* created through the form and so without a level, one in progress in a
\* category that differs from another in case only, one the server has
\* incremented past 5.
ViewCards ==
  { [id |-> 1, question |-> "2+2?", answer |-> "4", category |-> "Math",
     knownCount |-> 0, createdAt |-> 0, updatedAt |-> 0],
    [id |-> 2, question |-> "Capital?", answer |-> "Paris",
     category |-> "Geography", knownCount |-> MaxLevel,
     createdAt |-> 0, updatedAt |-> 2],
    [id |-> 3, question |-> "H2O?", answer |-> "Water",
     category |-> "Science", knownCount |-> Undef,
     createdAt |-> 1, updatedAt |-> 1],
    [id |-> 4, question |-> "Spa town?", answer |-> "Bath",
     category |-> "geography", knownCount |-> 3,
     createdAt |-> 2, updatedAt |-> 3],
    [id |-> 5, question |-> "Pi?", answer |-> "3.14", category |-> "Math",
     knownCount |-> MaxLevel + 1, createdAt |-> 3, updatedAt |-> 4] }

\* The lists of at most MaxCards records, no id twice.
RecordLists ==
  { list \in UNION { [1..n -> ViewCards] : n \in 0..MaxCards } :
      \A i, j \in 1..Len(list) : list[i].id = list[j].id => i = j }

\* The filters the page passes to filterFlashcards.
FilterChoices ==
  { [categories |-> categories, hideMastered |-> hideMastered,
     searchQuery |-> searchQuery] :
      categories \in {<<>>, <<"Math">>, <<"Science", "Geography">>},
      hideMastered \in BOOLEAN,
      searchQuery \in {"", "pa", "PA", "?", "zz"} }

InitView ==
  /\ backend = "local"
  /\ data = <<SeedCard(1, 4), SeedCard(2, 3)>>
  /\ storage = [present |-> FALSE, cards |-> <<>>]
  /\ db = data
  /\ now = 0
  /\ nextId = 3
  /\ last = NoCall
  /\ CacheInit
  /\ listFetching = FALSE
  /\ flashcards \in RecordLists
  /\ ui = UIInitial
  /\ view = NoView

\* The record of a call of a view function: the list it was given, its
\* other arguments and its result.
Viewed(fn, filters, out) ==
  [fn |-> fn, input |-> flashcards, filters |-> filters, out |-> out]

\* const stats = calculateStatistics(flashcards)
ViewStatistics ==
  /\ view' = Viewed("calculateStatistics", defaultFilters,
                    calculateStatistics(flashcards))
  /\ UNCHANGED <<storeVars, cacheVars, flashcards, ui>>

\* The statistics of the study page over its list.
StudyStatistics ==
  /\ view' = Viewed("StudyMode", defaultFilters,
                    StudyModeStatistics(flashcards))
  /\ UNCHANGED <<storeVars, cacheVars, flashcards, ui>>

\* filterFlashcards(flashcards, filters)
ViewFiltered ==
  /\ \E filters \in FilterChoices :
       LET r == filterFlashcards(flashcards, filters)
       IN  /\ view' = Viewed("filterFlashcards", filters, r.out)
           /\ flashcards' = r.array
  /\ UNCHANGED <<storeVars, cacheVars, ui>>

\* shuffleArray(array)
ViewShuffled ==
  /\ \E rand \in RandomChoices(Len(flashcards)) :
       LET r == shuffleArray(flashcards, rand)
       IN  /\ view' = Viewed("shuffleArray", defaultFilters, r.out)
           /\ flashcards' = r.array
  /\ UNCHANGED <<storeVars, cacheVars, ui>>

\* const categories = getCategoriesWithCounts(flashcards)
ViewCategories ==
  /\ view' = Viewed("getCategoriesWithCounts", defaultFilters,
                    getCategoriesWithCounts(flashcards))
  /\ UNCHANGED <<storeVars, cacheVars, flashcards, ui>>

\* GET /categories, the rows of the table being the list.
ServerCategories ==
  /\ view' = Viewed("flashcardService.getCategoriesWithCounts",
                    defaultFilters, ServiceCategoriesWithCounts(flashcards))
  /\ UNCHANGED <<storeVars, cacheVars, flashcards, ui>>

NextView ==
  \/ ViewStatistics \/ StudyStatistics \/ ViewFiltered \/ ViewShuffled
  \/ ViewCategories \/ ServerCategories

SpecView == InitView /\ [][NextView]_vars

---------------------------------------------------------------------------
(* The study cursor of the UI store, and the handlers of the page that    *)
(* move it over the list the page shows.                                   *)

Min(a, b) == IF a < b THEN a ELSE b

Max(a, b) == IF a > b THEN a ELSE b

\* nextCard: (totalCards) => set((state) => ({...}))
nextCard(state, totalCards) ==
  [state EXCEPT !.currentCardIndex =
                  Min(state.currentCardIndex + 1, totalCards - 1),
                !.isCardFlipped = FALSE]

\* previousCard: () => set((state) => ({...}))
previousCard(state) ==
  [state EXCEPT !.currentCardIndex = Max(state.currentCardIndex - 1, 0),
                !.isCardFlipped = FALSE]

\* flipCard: () => set((state) => ({ isCardFlipped: !state.isCardFlipped }))
flipCard(state) == [state EXCEPT !.isCardFlipped = ~state.isCardFlipped]

\* The record of a call on the cursor: the length of the list shown and
\* the store before the call.
Moved(fn) == [fn |-> fn, totalCards |-> Len(flashcards), before |-> ui]

\* nextCard(filteredFlashcards.length)
NextCard ==
  /\ ui' = nextCard(ui, Len(flashcards))
  /\ view' = Moved("nextCard")
  /\ UNCHANGED <<storeVars, cacheVars, flashcards>>

\* previousCard()
PreviousCard ==
  /\ ui' = previousCard(ui)
  /\ view' = Moved("previousCard")
  /\ UNCHANGED <<storeVars, cacheVars, flashcards>>

\* handleFlipCard
FlipCard ==
  /\ ui' = flipCard(ui)
  /\ view' = Moved("flipCard")
  /\ UNCHANGED <<storeVars, cacheVars, flashcards>>

\* handleNextCard
HandleNextCard ==
  /\ ui' = IF ui.currentCardIndex < Len(flashcards) - 1
           THEN [ui EXCEPT !.currentCardIndex = ui.currentCardIndex + 1,
                           !.isCardFlipped = FALSE]
           ELSE ui
  /\ view' = Moved("handleNextCard")
  /\ UNCHANGED <<storeVars, cacheVars, flashcards>>

\* handlePreviousCard
HandlePreviousCard ==
  /\ ui' = IF ui.currentCardIndex > 0
           THEN [ui EXCEPT !.currentCardIndex = ui.currentCardIndex - 1,
                           !.isCardFlipped = FALSE]
           ELSE ui
  /\ view' = Moved("handlePreviousCard")
  /\ UNCHANGED <<storeVars, cacheVars, flashcards>>

NextUI ==
  \/ NextCard \/ PreviousCard \/ FlipCard
  \/ HandleNextCard \/ HandlePreviousCard

SpecUI == InitView /\ [][NextUI]_vars

---------------------------------------------------------------------------
(* The UI store as a whole: the filters, the card form and the pages next *)
(* to the study cursor, over a list of MaxCards records.                   *)

\* The pages loadMore is followed to.
MaxPage == 2

\* setFilters putting the partial over the default filters.
setFiltersOverDefaults(state, newFilters) ==
  [state EXCEPT !.filters = Spread(defaultFilters, newFilters)]

\* setFilters: filters: { ...state.filters, ...newFilters }
setFilters(state, newFilters) ==
  [state EXCEPT !.filters = Spread(state.filters, newFilters)]

\* resetFilters: set({ filters: defaultFilters })
resetFilters(state) == [state EXCEPT !.filters = defaultFilters]

\* openCardForm: editingCardId: cardId || null, cardId being undefined
\* when the call passes none.
openCardForm(state, cardId) ==
  [state EXCEPT !.isCardFormOpen = TRUE,
                !.editingCardId = IF cardId = Undef THEN NoId ELSE cardId]

\* closeCardForm leaving the id of the card in the store.
closeCardFormKeepsId(state) == [state EXCEPT !.isCardFormOpen = FALSE]

\* closeCardForm: set({ isCardFormOpen: false, editingCardId: null })
closeCardForm(state) ==
  [state EXCEPT !.isCardFormOpen = FALSE, !.editingCardId = NoId]

\* loadMore: currentPage: state.currentPage + 1
loadMore(state) == [state EXCEPT !.currentPage = state.currentPage + 1]

\* What the page passes to setFilters: the categories chosen, the
\* checkbox; and partials of the search and of two keys.
FilterPartials ==
  { [categories |-> <<"Math">>],
    [hideMastered |-> TRUE],
    [searchQuery |-> "pa"],
    [categories |-> <<>>, hideMastered |-> FALSE] }

\* The record of a call on the store: its argument and the store before.
Called(fn, arg) == [fn |-> fn, arg |-> arg, before |-> ui]

InitStore ==
  /\ backend = "local"
  /\ data = <<SeedCard(1, 4), SeedCard(2, 3)>>
  /\ storage = [present |-> FALSE, cards |-> <<>>]
  /\ db = data
  /\ now = 0
  /\ nextId = 3
  /\ last = NoCall
  /\ CacheInit
  /\ listFetching = FALSE
  /\ flashcards \in { list \in RecordLists :
                        /\ Len(list) = MaxCards
                        /\ \A i \in 1..Len(list) : list[i].id = i }
  /\ ui = UIInitial
  /\ view = NoView

SetFilters ==
  /\ \E newFilters \in FilterPartials :
       /\ ui' = setFilters(ui, newFilters)
       /\ view' = Called("setFilters", newFilters)
  /\ UNCHANGED <<storeVars, cacheVars, flashcards>>

ResetFilters ==
  /\ ui' = resetFilters(ui)
  /\ view' = Called("resetFilters", defaultFilters)
  /\ UNCHANGED <<storeVars, cacheVars, flashcards>>

OpenCardForm ==
  /\ \E cardId \in {Undef} \cup Ids :
       /\ ui' = openCardForm(ui, cardId)
       /\ view' = Called("openCardForm", cardId)
  /\ UNCHANGED <<storeVars, cacheVars, flashcards>>

CloseCardForm ==
  /\ ui' = closeCardForm(ui)
  /\ view' = Called("closeCardForm", Undef)
  /\ UNCHANGED <<storeVars, cacheVars, flashcards>>

\* handleShuffle: setIsShuffled(!isShuffled); setCurrentCardIndex(0)
HandleShuffle ==
  /\ ui' = [ui EXCEPT !.isShuffled = ~ui.isShuffled, !.currentCardIndex = 0]
  /\ view' = Called("handleShuffle", Undef)
  /\ UNCHANGED <<storeVars, cacheVars, flashcards>>

LoadMore ==
  /\ ui.currentPage < MaxPage
  /\ ui' = loadMore(ui)
  /\ view' = Called("loadMore", Undef)
  /\ UNCHANGED <<storeVars, cacheVars, flashcards>>

NextStore ==
  \/ SetFilters \/ ResetFilters \/ OpenCardForm \/ CloseCardForm
  \/ HandleShuffle \/ LoadMore
  \/ NextCard \/ PreviousCard \/ FlipCard

SpecStore == InitStore /\ [][NextStore]_vars

---------------------------------------------------------------------------
(* Calls of incrementKnownCount that do not wait for one another.  A call *)
(* runs in two steps with timers between them: after the 100 ms of its    *)
(* getFlashcards it reads the level and computes the new one; after the   *)
(* 300 ms and 100 ms of updateFlashcard, that function reads the list     *)
(* again and writes the record with the level computed before.  Each step *)
(* runs to its end once its timer has fired.  The calls in flight are in  *)
(* muts, each with the input it will pass to updateFlashcard.             *)

\* The calls of incrementKnownCount followed.
MaxCalls == 3

\* The records the calls are made on.
RaceIds == {1, 2}

\* incrementKnownCount up to its call of updateFlashcard: the storage after
\* the read, and the input of the update.
incrementKnownCount_read(st, seed, id) ==
  LET read == getFlashcards(st, seed)
  IN  IF FindIndex(read.cards, id) = 0
      THEN [res |-> "NotFoundError", storage |-> read.storage,
            input |-> [knownCount |-> Undef]]
      ELSE [res |-> "ok", storage |-> read.storage,
            input |-> [knownCount |->
                         IncrementedLevel(CardOf(read.cards, id).knownCount)]]

InitRace ==
  /\ backend = "local"
  /\ data \in flashcardsData
  /\ storage = [present |-> FALSE, cards |-> <<>>]
  /\ db = data
  /\ now = 0
  /\ nextId = 3
  /\ last = NoCall
  /\ listCache = NotLoaded
  /\ detailCache = [id \in Ids |-> <<>>]
  /\ listFetching = FALSE
  /\ detailFetching = {}
  /\ muts = EmptyBag
  /\ event = [type |-> "race",
              level |-> [id \in RaceIds |-> CardOf(data, id).knownCount],
              calls |-> [id \in RaceIds |-> 0],
              done |-> [id \in RaceIds |-> 0]]
  /\ PageInit

\* The calls made so far.
CallsMade == event.calls[1] + event.calls[2]

\* handleIncrement(id): the call has read the level.
IncrementRead ==
  /\ backend = "local"
  /\ CallsMade < MaxCalls
  /\ \E id \in RaceIds :
       LET out == incrementKnownCount_read(storage, data, id)
       IN  /\ out.res = "ok"
           /\ storage' = out.storage
           /\ muts' = muts (+) SetToBag({[kind |-> "increment", id |-> id,
                                          input |-> out.input]})
           /\ event' = [event EXCEPT !.calls[id] = @ + 1]
  /\ UNCHANGED <<backend, data, db, now, nextId, last, listCache,
                 detailCache, listFetching, detailFetching, pageVars>>

\* The updateFlashcard of a call in flight runs.
IncrementWrite ==
  /\ backend = "local"
  /\ \E m \in BagToSet(muts) :
       LET out == updateFlashcard(storage, data, m.id, m.input, now + 1)
       IN  /\ storage' = out.storage
           /\ last' = Call("increment", "gateway", m.id, NoText, out)
           /\ muts' = muts (-) SetToBag({m})
           /\ event' = [event EXCEPT
                          !.done[m.id] = @ + (IF out.res = "ok" THEN 1 ELSE 0)]
  /\ now' = now + 1
  /\ UNCHANGED <<backend, data, db, nextId, listCache, detailCache,
                 listFetching, detailFetching, pageVars>>

NextRace == IncrementRead \/ IncrementWrite

SpecRace == InitRace /\ [][NextRace]_vars

---------------------------------------------------------------------------
(* The Record Store: claims C1 to C3 and C8 to C10, under Spec *)

LevelOf(cards, id) == CardOf(cards, id).knownCount

HasEmptyText(arg) ==
  arg.question = "" \/ arg.answer = "" \/ arg.category = ""

\* C1: after any sequence of create, update, increment and reset calls, on
\* the localStorage gateway and on the server alike, the level of every
\* stored record is an integer from 0 to 5.
C1_LevelsInRange ==
  \A i \in 1..Len(Records) : Records[i].knownCount \in Levels

\* C2: an increment of an existing record at level L stores and returns a
\* record at level min(L + 1, 5).
C2_IncrementClamps ==
  (last.op = "increment" /\ last.res = "ok"
     /\ LevelOf(last.before, last.id) \in Levels)
  => LET level == LevelOf(last.before, last.id)
         expected == IF level + 1 < MaxLevel THEN level + 1 ELSE MaxLevel
     IN  /\ LevelOf(Records, last.id) = expected
         /\ Len(last.ret) = 1
         /\ last.ret[1].knownCount = expected

\* C3: a reset of an existing record leaves it at level 0 whatever its
\* level was, and leaves the level of every other record as it was.
C3_ResetYieldsZero ==
  (last.op = "reset" /\ last.res = "ok")
  => /\ LevelOf(Records, last.id) = 0
     /\ Len(Records) = Len(last.before)
     /\ \A i \in 1..Len(last.before) :
          /\ Records[i].id = last.before[i].id
          /\ last.before[i].id # last.id
               => Records[i].knownCount = last.before[i].knownCount

\* A reset has cleared a level above 0 in a store that holds other records.
C3_Witness ==
  /\ last.op = "reset" /\ last.res = "ok"
  /\ last.id \in IdsOf(last.before)
  /\ LevelOf(last.before, last.id) > 0
  /\ Len(Records) >= 2

---------------------------------------------------------------------------
(* The cache and its reconciliation: claims C4 to C7, under SpecCache   *)

\* The update that has just ended was rejected, no other mutation was in
\* flight with it, and it was issued on a cached list that held its id.
RejectedUpdateAlone ==
  /\ event.type = "settle" /\ event.kind = "update" /\ ~event.ok
  /\ event.alone /\ event.before.list.has
  /\ event.id \in IdsOf(event.before.list.cards)

\* C4, as claimed: after the rollback of a rejected optimistic update to a
\* record of the cached list, with no other mutation in flight, the list
\* cache is the list as it was before the mutation, and the detail cache
\* of that id is what it was before the mutation.
C4_RollbackRestores ==
  RejectedUpdateAlone
  => /\ listCache = event.before.list
     /\ detailCache[event.id] = event.before.detail

\* C4, amended: the same, when no fetch of that record's detail query has
\* landed while the update was in flight.
C4_RollbackRestoresUnlessFetched ==
  (RejectedUpdateAlone /\ ~event.refetched)
  => /\ listCache = event.before.list
     /\ detailCache[event.id] = event.before.detail

\* A rejected update has been rolled back in a list of two cards and in a
\* detail cache that held the card.
C4_Witness ==
  /\ RejectedUpdateAlone /\ ~event.refetched
  /\ Len(event.before.list.cards) >= 2
  /\ event.before.detail # <<>>
  /\ event.context.previousFlashcard # <<>>
  /\ detailCache[event.id] = event.before.detail
  /\ CardOf(listCache.cards, event.id).question = "2+2?"

\* The detail cache of id, detail, where it has data, holds the record the
\* list cache holds under that id.
InLockstep(list, detail, id) ==
  detail # <<>>
  => /\ list.has
     /\ id \in IdsOf(list.cards)
     /\ detail[1] = CardOf(list.cards, id)

\* C5: an optimistic write or a rollback of an update, delete, increment
\* or reset of id X that finds the list cache and the detail(X) cache in
\* lockstep leaves them in lockstep, and after an optimistic delete X is
\* in neither.
C5_ListAndDetailInLockstep ==
  /\ (event.type = "mutate"
        /\ event.kind \in {"update", "delete", "increment", "reset"}
        /\ event.before.list.has
        /\ InLockstep(event.before.list, event.before.detail, event.id))
     => /\ InLockstep(listCache, detailCache[event.id], event.id)
        /\ event.kind = "delete"
             => /\ event.id \notin IdsOf(listCache.cards)
                /\ detailCache[event.id] = <<>>
  /\ (event.type = "settle" /\ ~event.ok
        /\ event.kind \in {"update", "delete"}
        /\ event.alone /\ ~event.refetched
        /\ event.before.list.has
        /\ InLockstep(event.before.list, event.before.detail, event.id))
     => InLockstep(listCache, detailCache[event.id], event.id)

\* An increment or a reset has just been issued for a record of the
\* cached list.
IssuedOnCachedRecord ==
  /\ event.type = "mutate" /\ event.kind \in {"increment", "reset"}
  /\ event.before.list.has
  /\ event.id \in IdsOf(event.before.list.cards)

C7_FailureShownAndUndone ==
  (event.type = "settle" /\ ~event.ok)
  => /\ event.errors >= 1
     /\ (event.alone /\ ~event.refetched /\ ~event.relisted)
          => /\ listCache = event.before.list
             /\ event.id # NoId
                  => detailCache[event.id] = event.before.detail

\* C8, as claimed: a create with an empty question, answer or category
\* fails with a validation error, and the store is as it was.
C8_CreateValidates ==
  (last.op = "create" /\ HasEmptyText(last.arg))
  => last.res = "ValidationError" /\ Records = last.before

\* C8, amended: a create submitted through the form, or posted to the
\* server route, with an empty question, answer or category fails with a
\* validation error, and the store is as it was.
C8_FormAndRouteValidate ==
  (last.op = "create" /\ last.via \in {"form", "route"}
     /\ HasEmptyText(last.arg))
  => last.res = "ValidationError" /\ Records = last.before

\* The form has refused a create with an empty category.
C8_Witness ==
  /\ last.op = "create" /\ last.via = "form"
  /\ last.arg.category = "" /\ last.arg.question # ""
  /\ last.res = "ValidationError"

\* C9: a successful create stores exactly one new record, with an id that
\* is not empty, level 0 and createdAt equal to updatedAt, returns that
\* record, and leaves every record that was there as it was.
C9_CreateMakesFreshCard ==
  (last.op = "create" /\ last.res = "ok")
  => /\ Len(last.ret) = 1
     /\ last.ret[1].id # NoId
     /\ last.ret[1].knownCount = 0
     /\ last.ret[1].createdAt = last.ret[1].updatedAt
     /\ Records = Append(last.before, last.ret[1])

---------------------------------------------------------------------------
(* The view functions: claims C12 to C15 and C17, under SpecView.          *)

\* The number of records of a list at a level.
AtLevel(cards, level) ==
  Cardinality({ i \in 1..Len(cards) : cards[i].knownCount = level })

\* C12: for every record list, the statistics are total = the number of
\* records, mastered = the number at level 5, notStarted = the number at
\* level 0 and inProgress = all the others, so that the three add up to
\* the total.
C12_StatisticsPartition ==
  view.fn \in {"calculateStatistics", "StudyMode"}
  => /\ view.out.total = Len(view.input)
     /\ view.out.mastered = AtLevel(view.input, MaxLevel)
     /\ view.out.notStarted = AtLevel(view.input, 0)
     /\ view.out.inProgress
          = Len(view.input) - AtLevel(view.input, MaxLevel)
                            - AtLevel(view.input, 0)
     /\ view.out.mastered + view.out.inProgress + view.out.notStarted
          = view.out.total

\* C13: filterFlashcards with no category, hideMastered false and an empty
\* search returns a list equal to its input in order and content, and
\* leaves its input as it was.
C13_NoFilterIsIdentity ==
  (view.fn = "filterFlashcards" /\ view.filters = defaultFilters)
  => view.out = view.input /\ flashcards = view.input

\* No filter was applied to a list of three records.
C13_Witness ==
  /\ view.fn = "filterFlashcards" /\ view.filters = defaultFilters
  /\ Len(view.input) = 3
  /\ view.out = view.input

\* The predicates of a filter as the specification words them: category in
\* the selected set, level not 5, the query a case-insensitive substring.
Satisfies(card, filters) ==
  /\ filters.categories # <<>>
       => card.category \in Elements(filters.categories)
  /\ filters.hideMastered => card.knownCount # MaxLevel
  /\ filters.searchQuery # "" => MatchesQuery(card, filters.searchQuery)

\* C14: filterFlashcards returns exactly the records that satisfy every
\* active predicate, in their input order, and the three steps in any
\* order give the same result.
C14_FilterIsConjunction ==
  view.fn = "filterFlashcards"
  => LET f == view.filters
         input == view.input
     IN  /\ view.out = SelectSeq(input, LAMBDA card : Satisfies(card, f))
         /\ view.out = Searched(ByCategory(NotMastered(input, f), f), f)
         /\ view.out = NotMastered(Searched(ByCategory(input, f), f), f)
         /\ view.out = NotMastered(ByCategory(Searched(input, f), f), f)
         /\ view.out = ByCategory(Searched(NotMastered(input, f), f), f)
         /\ view.out = ByCategory(NotMastered(Searched(input, f), f), f)

\* The multiset of the elements of an array.
BagOf(array) ==
  [x \in Elements(array) |->
     Cardinality({ i \in 1..Len(array) : array[i] = x })]

\* C15: shuffleArray returns a sequence with the multiset of elements of
\* its input, whatever the random choices, and leaves its input as it was.
C15_ShuffleKeepsMultiset ==
  view.fn = "shuffleArray"
  => /\ BagOf(view.out) = BagOf(view.input)
     /\ Len(view.out) = Len(view.input)
     /\ flashcards = view.input

\* A shuffle has changed the order of three records.
C15_Witness ==
  /\ view.fn = "shuffleArray"
  /\ Len(view.input) = 3
  /\ view.out # view.input

\* The categories of a list, and the entries that count them.
CategoriesOf(cards) == { cards[i].category : i \in 1..Len(cards) }

InCategory(cards, category) ==
  Cardinality({ i \in 1..Len(cards) : cards[i].category = category })

\* The index in a list of the first record of a category.
FirstOf(cards, category) ==
  CHOOSE i \in 1..Len(cards) :
    /\ cards[i].category = category
    /\ \A j \in 1..(i - 1) : cards[j].category # category

\* One entry for each category of the list, with the count of its records.
CountsEachCategory(names, counts, cards) ==
  /\ Len(counts) = Len(names)
  /\ { names[i] : i \in 1..Len(names) } = CategoriesOf(cards)
  /\ Len(names) = Cardinality(CategoriesOf(cards))
  /\ \A i \in 1..Len(names) : counts[i] = InCategory(cards, names[i])

\* The names and the counts of the entries a call has returned.
NamesOut ==
  [i \in 1..Len(view.out) |->
     IF view.fn = "getCategoriesWithCounts"
     THEN view.out[i].name ELSE view.out[i].category]

CountsOut == [i \in 1..Len(view.out) |-> view.out[i].count]

---------------------------------------------------------------------------
(* The study cursor: claim C18, under SpecUI.                              *)

CursorCalls == {"nextCard", "previousCard", "handleNextCard",
                "handlePreviousCard"}

\* C18: nextCard and previousCard never move the cursor outside
\* [0, totalCards - 1] and never wrap around: going on at the last index
\* and going back at index 0 leave the cursor where it is, and the cursor
\* is never negative.
C18_CursorClamped ==
  view.fn \in CursorCalls
  => LET from == view.before.currentCardIndex
         to == ui.currentCardIndex
         forward == view.fn \in {"nextCard", "handleNextCard"}
     IN  /\ to >= 0
         /\ from \in 0..(view.totalCards - 1) => to \in 0..(view.totalCards - 1)
         /\ to \in (IF forward THEN {from, from + 1} ELSE {from, from - 1})
         /\ (forward /\ from = view.totalCards - 1) => to = from
         /\ (~forward /\ from = 0) => to = from

---------------------------------------------------------------------------
(* The order of the list: claim C16, under SpecList.                       *)

\* C16: the list is returned newest first by createdAt: it holds every
\* record of the store it was asked for, and a record created later is
\* before every record created earlier.
C16_ListNewestFirst ==
  (last.op = "list" /\ last.res = "ok")
  => /\ last.arg.category = "" => IdsOf(last.ret) = IdsOf(Records)
     /\ \A i, j \in 1..Len(last.ret) :
          last.ret[i].createdAt > last.ret[j].createdAt => i < j

---------------------------------------------------------------------------
(* The caches and the store: claims C19 and C20, under SpecCache.          *)

\* No mutation is in flight and no query is fetching.
Quiescent ==
  muts = EmptyBag /\ ~listFetching /\ detailFetching = {}

\* The cached list, if there is one, is the list of the store.
ListCacheIsStore == listCache.has => listCache.cards = Records

\* Every detail cache that holds a card holds the card of the store.
DetailCachesAreStore ==
  \A id \in DOMAIN detailCache :
    detailCache[id] # <<>>
    => /\ id \in IdsOf(Records)
       /\ detailCache[id] = <<CardOf(Records, id)>>

\* C19: once every mutation issued has settled and the refetches they
\* started have completed, the list cache and every populated detail cache
\* equal the contents of the store.
C19_CachesReconciled ==
  Quiescent => ListCacheIsStore /\ DetailCachesAreStore

---------------------------------------------------------------------------
(* The optimistic delete: claim C21, under SpecCache.                      *)

\* Is the record of the event's id absent from the cached list?
AbsentFromList ==
  listCache.has => event.id \notin IdsOf(listCache.cards)

\* A delete issued on a cached list has left the list without its record,
\* and a delete that failed has put the snapshot of the list back.
DeleteRemovesAndRestores ==
  /\ (event.type = "mutate" /\ event.kind = "delete"
        /\ event.before.list.has)
     => /\ event.context.taken
        /\ event.context.previousFlashcards = event.before.list
        /\ listCache.has
        /\ listCache.cards
             = SelectCards(event.before.list.cards,
                           IdsOf(event.before.list.cards) \ {event.id})
  /\ (event.type = "settle" /\ event.kind = "delete" /\ ~event.ok
        /\ event.context.previousFlashcards.has)
     => listCache = event.context.previousFlashcards

\* C21 as stated: a delete removes the record from the cached list before
\* the storage call resolves; if the call fails the list is restored to
\* the snapshot, and if it succeeds the record stays absent.
C21_DeleteStaysAbsent ==
  /\ DeleteRemovesAndRestores
  /\ (event.type = "settle" /\ event.kind = "delete" /\ event.ok)
     => AbsentFromList

\* C21, amended: the same, the record being absent at a success when no
\* fetch of the list has landed and no other mutation was in flight
\* while the delete was; in any case the list is then fetched again.
C21_DeleteAbsentUnlessFetched ==
  /\ DeleteRemovesAndRestores
  /\ (event.type = "settle" /\ event.kind = "delete" /\ event.ok)
     => /\ listFetching
        /\ (event.alone /\ ~event.relisted) => AbsentFromList

\* A delete of a record of a cached list of two has succeeded, and the
\* list holds the other record only.
C21_Witness ==
  /\ event.type = "settle" /\ event.kind = "delete" /\ event.ok
  /\ event.alone /\ ~event.relisted
  /\ Len(event.before.list.cards) = 2
  /\ event.id \in IdsOf(event.before.list.cards)
  /\ listCache.has /\ Len(listCache.cards) = 1

---------------------------------------------------------------------------
(* Mutations of different records: claim C22, under SpecCache.             *)

\* The entry of id in a cached list: its record, or none.
EntryOf(list, id) ==
  IF list.has /\ id \in IdsOf(list.cards)
  THEN <<CardOf(list.cards, id)>> ELSE <<>>

\* C22: the rollback of a failed update or delete of id X leaves the
\* entry of every other id Y in the cached list, and the detail cache of
\* Y, as they were, also when Y has an optimistic update or delete of its
\* own still in flight.
C22_RollbackLeavesOthers ==
  [][(event'.type = "settle" /\ ~event'.ok
        /\ event'.kind \in {"update", "delete"})
     => \A y \in Ids \ {event'.id} :
          /\ EntryOf(listCache', y) = EntryOf(listCache, y)
          /\ detailCache'[y] = detailCache[y]]_vars

---------------------------------------------------------------------------
(* The ids of the records: claim C23, under Spec.                          *)

\* C23: after any sequence of create, update, delete, increment and reset
\* no two records of the store share an id, and no operation changes the
\* id of a record: the records an operation finds keep their ids and
\* their places, a delete taking one of them out.
C23_IdsUniqueAndFixed ==
  /\ \A i, j \in 1..Len(Records) : Records[i].id = Records[j].id => i = j
  /\ last.op \in {"create", "update", "increment", "reset"}
     => /\ Len(Records) >= Len(last.before)
        /\ \A i \in 1..Len(last.before) : Records[i].id = last.before[i].id
  /\ last.op = "delete"
     => [i \in 1..Len(Records) |-> Records[i].id]
          = SelectSeq([i \in 1..Len(last.before) |-> last.before[i].id],
                      LAMBDA id : id # last.id \/ last.res # "ok")

\* A record has been created after a delete, and its id is not one of
\* those found.
C23_Witness ==
  /\ last.op = "create" /\ last.res = "ok"
  /\ Len(last.before) = 1
  /\ Len(Records) = 2
  /\ Records[2].id \notin IdsOf(last.before)

---------------------------------------------------------------------------
(* The frame of an update: claim C24, under Spec.                          *)

\* C24: a successful update of id with a patch changes the record of that
\* id only: the fields of the patch take its values and updatedAt is the
\* time of the update, the id, createdAt and the fields the patch does not
\* name keep their values, and every other record and the order of the
\* list are as they were.
C24_UpdateChangesOnlyPatched ==
  (last.op = "update" /\ last.res = "ok")
  => LET index == FindIndex(last.before, last.id)
         was == last.before[index]
         is == Records[index]
         patched == DOMAIN last.arg \ {"updatedAt"}
     IN  /\ index # 0
         /\ Len(Records) = Len(last.before)
         /\ \A j \in 1..Len(Records) : j # index => Records[j] = last.before[j]
         /\ \A f \in patched : is[f] = last.arg[f]
         /\ is.updatedAt = now /\ is.updatedAt > was.updatedAt
         /\ is.id = was.id /\ is.createdAt = was.createdAt
         /\ \A f \in DOMAIN was \ (patched \cup {"updatedAt"}) : is[f] = was[f]
         /\ last.ret = <<is>>

\* The second of three records has had its answer and its category
\* updated, some time after it was created.
C24_Witness ==
  /\ last.op = "update" /\ last.res = "ok"
  /\ Len(Records) = 3
  /\ last.id = 2
  /\ Records[2].answer = "6"
  /\ Records[2].question = "Capital of France?"
  /\ Records[2].updatedAt > Records[2].createdAt

---------------------------------------------------------------------------
(* The card form and the filters of the UI store: claims C25 and C26,      *)
(* under SpecStore.                                                        *)

\* C25: in every state of the UI store editingCardId is set only while
\* isCardFormOpen is true; openCardForm(id) opens the form with that id,
\* openCardForm() opens it with none, and closeCardForm closes the form
\* and clears the id.
C25_EditingOnlyWhileOpen ==
  /\ ui.editingCardId # NoId => ui.isCardFormOpen
  /\ view.fn = "openCardForm"
     => /\ ui.isCardFormOpen
        /\ ui.editingCardId = (IF view.arg = Undef THEN NoId ELSE view.arg)
  /\ view.fn = "closeCardForm"
     => ~ui.isCardFormOpen /\ ui.editingCardId = NoId

\* The form that was open on card 2 has been closed.
C25_Witness ==
  /\ view.fn = "closeCardForm"
  /\ view.before.isCardFormOpen /\ view.before.editingCardId = 2
  /\ ~ui.isCardFormOpen /\ ui.editingCardId = NoId

\* The fields of the UI store other than the filters.
OtherThanFilters(state) ==
  [f \in DOMAIN state \ {"filters"} |-> state[f]]

\* C26: setFilters and resetFilters change the filters only: the cursor,
\* isCardFlipped, isShuffled, the form and the pages are as they were;
\* setFilters gives the keys of its partial their values and keeps every
\* other key of the filters, resetFilters gives the default filters.
C26_FiltersOnly ==
  /\ view.fn \in {"setFilters", "resetFilters"}
     => OtherThanFilters(ui) = OtherThanFilters(view.before)
  /\ view.fn = "setFilters"
     => \A key \in DOMAIN ui.filters :
          ui.filters[key] = IF key \in DOMAIN view.arg THEN view.arg[key]
                            ELSE view.before.filters[key]
  /\ view.fn = "resetFilters" => ui.filters = defaultFilters

\* The categories have been set while the search was set, the cursor was
\* on the second card, turned over, and the form was open.
C26_Witness ==
  /\ view.fn = "setFilters"
  /\ "categories" \in DOMAIN view.arg
  /\ "searchQuery" \notin DOMAIN view.arg
  /\ ui.filters.searchQuery = "pa"
  /\ ui.filters.categories = <<"Math">>
  /\ ui.currentCardIndex = 1
  /\ ui.isCardFlipped
  /\ ui.isCardFormOpen

---------------------------------------------------------------------------
(* Reading and seeding: claim C27, under SpecList.                         *)

\* C27: a read of the list seeds the store from the bundled dataset when
\* the storage key is absent and only then; with the key present, also
\* when it holds an empty array, a read leaves the store as it is; a read
\* returns what the store then holds, and a read that follows a read
\* returns the same list.
C27_ReadSeedsOnlyAbsentKey ==
  [][(last'.op = "list" /\ backend = "local")
     => /\ storage.present => storage' = storage
        /\ ~storage.present
             => storage' = [present |-> TRUE, cards |-> JsonCards(data)]
        /\ last'.ret = storage'.cards
        /\ last.op = "list" => last'.ret = last.ret]_vars

\* The list has been read from a store whose records were all deleted:
\* the key holds an empty array, and the read returned no record.
C27_Witness ==
  /\ last.op = "list" /\ last.via = "gateway"
  /\ last.before = <<>>
  /\ storage.present /\ storage.cards = <<>>
  /\ last.ret = <<>>

---------------------------------------------------------------------------
(* Increments that overlap: claim C28, under SpecRace.                     *)

\* C28: when k calls of incrementKnownCount on a record at level L,
\* issued without waiting for one another, have all succeeded, the level
\* stored is min(L + k, 5), however their reads and writes interleave.
C28_ConcurrentIncrementsAdd ==
  event.type = "race"
  => \A id \in RaceIds :
       (event.calls[id] >= 1 /\ event.done[id] = event.calls[id])
       => LevelOf(Records, id)
            = Min(event.level[id] + event.calls[id], MaxLevel)


---------------------------------------------------------------------------
(* Hiding the mastered cards and counting them.                           *)

\* The filters with only hideMastered set.
HideMasteredOnly ==
  [categories |-> <<>>, hideMastered |-> TRUE, searchQuery |-> ""]

\* The records of a list that filterFlashcards leaves out.
RemovedBy(cards, filters) ==
  LET out == filterFlashcards(cards, filters).out
  IN  SelectSeq(cards,
        LAMBDA card : \A i \in 1..Len(out) : out[i].id # card.id)

\* C29: in every store the gateway operations lead to, the records that
\* filterFlashcards removes under hideMastered alone are the records that
\* calculateStatistics counts as mastered: each of them is at level 5 and
\* there are as many as the mastered count.
C29_HiddenAreMastered ==
  LET removed == RemovedBy(Records, HideMasteredOnly)
  IN  /\ \A i \in 1..Len(removed) : removed[i].knownCount = MaxLevel
      /\ Len(removed) = calculateStatistics(Records).mastered


---------------------------------------------------------------------------
(* The study-mode route: a component with its own cursor and filters      *)
(* over the bundled dataset, held here in ui; flashcards is               *)
(* flashcardsData.flashcards.                                             *)

\* The four useState values of StudyMode.
StudyInitial ==
  [currentCardIndex |-> 0, hideMastered |-> FALSE,
   selectedCategory |-> "All Categories", isFlipped |-> FALSE]

\* filteredCards: the cards of the selected category, without the
\* mastered ones when hideMastered is set.
filteredCards(cards, state) ==
  SelectSeq(cards,
    LAMBDA card :
      LET categoryMatch == \/ state.selectedCategory = "All Categories"
                           \/ card.category = state.selectedCategory
          masteredFilter == IF state.hideMastered
                            THEN JsLess(card.knownCount, MaxLevel)
                            ELSE TRUE
      IN  categoryMatch /\ masteredFilter)

\* The options of the select: 'All Categories' and the categories of the
\* cards.
StudyCategories(cards) ==
  {"All Categories"} \cup { cards[i].category : i \in 1..Len(cards) }

\* handlePrevious, with the filtered list of the render it was made in.
handlePrevious(state, filtered) ==
  [state EXCEPT
     !.currentCardIndex = IF state.currentCardIndex > 0
                          THEN state.currentCardIndex - 1
                          ELSE Len(filtered) - 1,
     !.isFlipped = FALSE]

\* handleNext
handleNext(state, filtered) ==
  [state EXCEPT
     !.currentCardIndex = IF state.currentCardIndex < Len(filtered) - 1
                          THEN state.currentCardIndex + 1
                          ELSE 0,
     !.isFlipped = FALSE]

\* The values of Math.floor(Math.random() * filteredCards.length).
RandomIndexes(filtered) ==
  IF Len(filtered) = 0 THEN {0} ELSE 0..(Len(filtered) - 1)

\* handleShuffle, with the index drawn.
handleShuffle(state, random) ==
  [state EXCEPT !.currentCardIndex = random, !.isFlipped = FALSE]

\* The call a study-mode handler made, the state it was made in and the
\* filtered list of that render.
Studied(fn) ==
  [fn |-> fn, before |-> ui, filtered |-> filteredCards(flashcards, ui)]

InitStudy ==
  /\ backend = "local"
  /\ data = <<SeedCard(1, 4), SeedCard(2, 3)>>
  /\ storage = [present |-> FALSE, cards |-> <<>>]
  /\ db = data
  /\ now = 0
  /\ nextId = 3
  /\ last = NoCall
  /\ CacheInit
  /\ listFetching = FALSE
  /\ flashcards \in RecordLists
  /\ ui = StudyInitial
  /\ view = NoView

\* <button onClick={handlePrevious}>
StudyPrevious ==
  /\ ui' = handlePrevious(ui, filteredCards(flashcards, ui))
  /\ view' = Studied("handlePrevious")
  /\ UNCHANGED <<storeVars, cacheVars, flashcards>>

\* <button onClick={handleNext}>
StudyNext ==
  /\ ui' = handleNext(ui, filteredCards(flashcards, ui))
  /\ view' = Studied("handleNext")
  /\ UNCHANGED <<storeVars, cacheVars, flashcards>>

\* <button onClick={handleIKnowThis}>: logs, then handleNext().
StudyIKnowThis ==
  /\ ui' = handleNext(ui, filteredCards(flashcards, ui))
  /\ view' = Studied("handleIKnowThis")
  /\ UNCHANGED <<storeVars, cacheVars, flashcards>>

\* <button onClick={handleShuffle}>
StudyShuffle ==
  /\ \E random \in RandomIndexes(filteredCards(flashcards, ui)) :
       ui' = handleShuffle(ui, random)
  /\ view' = Studied("handleShuffle")
  /\ UNCHANGED <<storeVars, cacheVars, flashcards>>

\* The select changes to another of its options.
SetSelectedCategory ==
  /\ \E category \in StudyCategories(flashcards) \ {ui.selectedCategory} :
       ui' = [ui EXCEPT !.selectedCategory = category]
  /\ view' = Studied("setSelectedCategory")
  /\ UNCHANGED <<storeVars, cacheVars, flashcards>>

\* The checkbox is ticked or cleared.
SetHideMastered ==
  /\ ui' = [ui EXCEPT !.hideMastered = ~ui.hideMastered]
  /\ view' = Studied("setHideMastered")
  /\ UNCHANGED <<storeVars, cacheVars, flashcards>>

\* A click on the card shown, when there is one (currentCard is defined).
StudyFlip ==
  /\ ui.currentCardIndex \in 0..(Len(filteredCards(flashcards, ui)) - 1)
  /\ ui' = [ui EXCEPT !.isFlipped = ~ui.isFlipped]
  /\ view' = Studied("setIsFlipped")
  /\ UNCHANGED <<storeVars, cacheVars, flashcards>>

NextStudy ==
  \/ StudyPrevious \/ StudyNext \/ StudyIKnowThis \/ StudyShuffle
  \/ SetSelectedCategory \/ SetHideMastered \/ StudyFlip

SpecStudy == InitStudy /\ [][NextStudy]_vars

\* C30: after handleNext or handlePrevious in the study-mode route, with
\* n >= 1 filtered cards the cursor is in 0..n-1, handleNext has wrapped
\* from n-1 to 0 and handlePrevious from 0 to n-1, and the card is not
\* flipped, whatever navigation and filter changes came before.
C30_StudyCursorValid ==
  view.fn \in {"handleNext", "handlePrevious"}
  => LET n == Len(view.filtered)
     IN  /\ ~ui.isFlipped
         /\ n >= 1
            => /\ ui.currentCardIndex \in 0..(n - 1)
               /\ (view.fn = "handleNext"
                   /\ view.before.currentCardIndex = n - 1)
                  => ui.currentCardIndex = 0
               /\ (view.fn = "handlePrevious"
                   /\ view.before.currentCardIndex = 0)
                  => ui.currentCardIndex = n - 1

=============================================================================
